---- MODULE Spec2Model ----
(***************************************************************************)
(* Docker Cleaner: the Resource Gateway (server.ts, a Hono application in  *)
(* front of the Docker Engine) and the Dashboard Client (the React App     *)
(* component).  The gateway is modelled one request at a time, one step    *)
(* per await of its handlers; the client one step per event handler or     *)
(* per continuation of an async handler.                                   *)
(***************************************************************************)
EXTENDS Integers, Sequences, FiniteSets, TLC

(***************************************************************************)
(* Bounds of the model.                                                    *)
(***************************************************************************)
\* resources of each kind the engine can hold
MaxIds == 2
\* longest identifier list of a delete request
MaxLen == 2
\* requests the gateway serves in one behaviour
MaxRequests == 2
\* operations the user starts after the first load (in the longer sessions:
\* refreshes, before one delete)
MaxOps == 1

\* strings are sequences of characters over a small alphabet with both cases
Letters == <<"a", "B", "b", "A">>
Letter(i) == Letters[((i - 1) % Len(Letters)) + 1]
Digits == <<"1", "2", "3", "4", "5", "6", "7", "8", "9">>
\* a two letter word, different for neighbouring i
Word(i) == <<Letter(i), Letter(i + 1)>>
\* the identifier of resource i: a container, image or network id, a volume name
Ident(i) == <<Digits[i]>> \o Word(i)

Ids == {Ident(i) : i \in 1..MaxIds}
\* the position of a resource in the engine's own order
IndexOf(id) == CHOOSE i \in 1..MaxIds : Ident(i) = id

\* TabType of the client, and the path segment of the gateway's endpoints
Kinds == {"containers", "images", "volumes", "networks"}
Paths == Kinds \cup {"system"}

(***************************************************************************)
(* The Docker Engine as the gateway sees it.                               *)
(***************************************************************************)
\* let docker: not assigned yet
NoHandle == [socketPath |-> "", createdBy |-> 0]
DefaultSocketPath == "/var/run/docker.sock"
\* values of the DOCKER_SOCKET_PATH environment variable ("" when unset)
EnvPaths == {"", "/custom/docker.sock"}

\* messages of the errors the engine client throws: the first two are answers
\* of the engine, the last one a failure to reach it
NoSuchResource == "no such resource"
ResourceInUse == "resource is in use"
EngineUnreachable == "connect ENOENT"
Ok == "ok"

\* the outcomes a removal of id can have, given what the engine holds
RemoveOutcomes(held, id) ==
    IF id \in held THEN {Ok, ResourceInUse, EngineUnreachable}
    ELSE {NoSuchResource, EngineUnreachable}

\* usage figure of a volume in the disk-usage report, and size of an image
UsageSize(id) == IndexOf(id) - 1

VARIABLES
    envSocketPath,  \* DOCKER_SOCKET_PATH of the process
    docker,         \* the engine connection handle: its socket path, and the
                    \* arrival number of the request that created it
    engine,         \* the identifiers the engine holds, per kind
    gpc,            \* position of the gateway's handler
    req,            \* the request being handled
    idx,            \* position of the delete loop in the identifier list
    results,        \* the results array of the delete handler
    calls,          \* the engine calls made for the current request
    response,       \* the response of the current request
    served,         \* requests received so far
    pending         \* requests that arrived while a handler was waiting

gvars == <<envSocketPath, docker, engine, gpc, req, idx, results, calls,
           response, served, pending>>

\* the state of the Dashboard Client
VARIABLES
    activeTab, containers, images, volumes, networks, systemInfo,
    selectedItems, loading, error, searchTerm, sortConfig,
    cpc,        \* position of the client's async handlers
    inDelete,   \* fetchData was called by handleDelete
    failed,     \* failed.length of handleDelete
    inflight,   \* the requests sent and not yet answered
    arrived,    \* the answers of the five fetches of fetchData
    deleted,    \* the answer of the delete request of handleDelete
    decodeIdx,  \* the next body fetchData decodes
    ops         \* refreshes the user has started, MaxOps + 1 after a delete

cvars == <<activeTab, containers, images, volumes, networks, systemInfo,
           selectedItems, loading, error, searchTerm, sortConfig, cpc,
           inDelete, failed, inflight, arrived, deleted, decodeIdx, ops>>
vars == <<gvars, cvars>>

NoBody == [json |-> FALSE, list |-> FALSE, ids |-> <<>>]
NoRequest == [method |-> "none", path |-> "none", body |-> NoBody]
NoResponse == [status |-> 0, body |-> <<>>]

\* request bodies of a delete: unparseable JSON, an object without the list,
\* or the list of identifiers
IdLists == UNION {[1..n -> Ids] : n \in 0..MaxLen}
BadJson == [json |-> FALSE, list |-> FALSE, ids |-> <<>>]
NoList == [json |-> TRUE, list |-> FALSE, ids |-> <<>>]
ListBody(ids) == [json |-> TRUE, list |-> TRUE, ids |-> ids]
Bodies == {BadJson, NoList} \cup {ListBody(ids) : ids \in IdLists}

\* the 500 answer of the outer catch of every handler
FailureMessage(method, path) ==
    IF method = "DELETE" THEN "Failed to delete " \o path
    ELSE IF path = "system" THEN "Failed to fetch system info"
    ELSE "Failed to fetch " \o path
ErrorResponse(method, path) ==
    [status |-> 500, body |-> [error |-> FailureMessage(method, path)]]

(***************************************************************************)
(* Reshaping of the engine's answers (the list and usage handlers).        *)
(***************************************************************************)
RECURSIVE SortedSeq(_)
\* the engine reports what it holds in its own order: here, ascending
SortedSeq(S) ==
    IF S = {} THEN <<>>
    ELSE LET m == CHOOSE x \in S : \A y \in S : IndexOf(x) <= IndexOf(y)
         IN <<m>> \o SortedSeq(S \ {m})

RECURSIVE SumSizes(_)
\* reduce((acc, x) => acc + (x.Size || 0), 0) over the entries of a report
SumSizes(S) ==
    IF S = {} THEN 0
    ELSE LET m == CHOOSE x \in S : TRUE
         IN UsageSize(m) + SumSizes(S \ {m})

\* one section of the disk-usage report: absent, or the entries it lists
AbsentSection == [present |-> FALSE, items |-> {}]
Section(S) == [present |-> TRUE, items |-> S]

\* the reports docker.df() can return for what the engine holds: any section
\* may be absent, and the volume section may miss volumes of the listing
DfReports(held) ==
    { [containers |-> c, images |-> i, volumes |-> v] :
        c \in {AbsentSection, Section(held["containers"])},
        i \in {AbsentSection, Section(held["images"])},
        v \in {AbsentSection} \cup {Section(S) : S \in SUBSET held["volumes"]} }

\* no report was returned
NoReport == [containers |-> AbsentSection, images |-> AbsentSection,
             volumes |-> AbsentSection]

\* the engine's records, reshaped: the fields the client reads
containerDetails(id) ==
    [id |-> id,
     names |-> << <<"/">> \o Word(IndexOf(id)) >>,
     image |-> Word(IndexOf(id) + 2),
     state |-> "running",
     status |-> <<"u", "p">>,
     created |-> MaxIds + 1 - IndexOf(id),
     \* SizeRw || 0: the listing is not asked for sizes
     size |-> 0]
\* RepoTags || []: every second image is dangling
imageDetails(id) ==
    [id |-> id,
     repoTags |-> IF IndexOf(id) % 2 = 0 THEN <<>> ELSE <<Word(IndexOf(id))>>,
     created |-> IndexOf(id),
     size |-> UsageSize(id),
     virtualSize |-> UsageSize(id),
     containers |-> 0]
networkDetails(id) ==
    [id |-> id,
     name |-> Word(IndexOf(id)),
     driver |-> <<"b", "r">>,
     scope |-> <<"l">>,
     internal |-> (IndexOf(id) % 2 = 0),
     created |-> <<Digits[IndexOf(id)]>>]
volumeDetailsUnmatched(id, df) ==
    [name |-> id,
     driver |-> <<"l">>,
     mountpoint |-> <<"/">> \o id,
     created |-> <<Digits[IndexOf(id)]>>,
     size |-> IF df.volumes.present THEN UsageSize(id) ELSE 0,
     refCount |-> 0]

\* size: volumeSizes.get(volume.Name) || 0
volumeDetails(id, df) ==
    [name |-> id,
     driver |-> <<"l">>,
     mountpoint |-> <<"/">> \o id,
     created |-> <<Digits[IndexOf(id)]>>,
     size |-> IF df.volumes.present /\ id \in df.volumes.items
              THEN UsageSize(id) ELSE 0,
     refCount |-> 0]

Details(kind, id) ==
    IF kind = "containers" THEN containerDetails(id)
    ELSE IF kind = "images" THEN imageDetails(id)
    ELSE networkDetails(id)

UsagePairSizeIsCount(section) ==
    [count |-> IF section.present THEN Cardinality(section.items) ELSE 0,
     size |-> IF section.present THEN Cardinality(section.items) ELSE 0]

\* count: df.X?.length || 0, size: df.X?.reduce(...) || 0
UsagePair(section) ==
    [count |-> IF section.present THEN Cardinality(section.items) ELSE 0,
     size |-> IF section.present THEN SumSizes(section.items) ELSE 0]

ListResponseEmptyOnFailure(path, held, outcome) ==
    [status |-> 200,
     body |-> IF outcome # Ok THEN <<>>
              ELSE [j \in 1..Cardinality(held[path]) |->
                      Details(path, SortedSeq(held[path])[j])]]

ListResponseWithoutLast(path, held, outcome) ==
    IF outcome # Ok THEN ErrorResponse("GET", path)
    ELSE [status |-> 200,
          body |-> [j \in 1..(Cardinality(held[path]) - 1) |->
                      Details(path, SortedSeq(held[path])[j])]]

\* answer of a list handler of containers, images or networks, given the
\* outcome of its engine call
ListResponse(path, held, outcome) ==
    IF outcome # Ok THEN ErrorResponse("GET", path)
    ELSE [status |-> 200,
          body |-> [j \in 1..Cardinality(held[path]) |->
                      Details(path, SortedSeq(held[path])[j])]]

\* answer of the volume list handler: listVolumes() first, then df()
VolumesResponse(held, listOutcome, dfOutcome, df) ==
    IF listOutcome # Ok \/ dfOutcome # Ok THEN ErrorResponse("GET", "volumes")
    ELSE [status |-> 200,
          body |-> [j \in 1..Cardinality(held["volumes"]) |->
                      volumeDetails(SortedSeq(held["volumes"])[j], df)]]

\* answer of the usage handler
SystemResponse(dfOutcome, df) ==
    IF dfOutcome # Ok THEN ErrorResponse("GET", "system")
    ELSE [status |-> 200,
          body |-> [images |-> UsagePair(df.images),
                    containers |-> UsagePair(df.containers),
                    volumes |-> UsagePair(df.volumes)]]

(***************************************************************************)
(* The delete handlers.                                                    *)
(***************************************************************************)
OutcomeEntryGeneric(kind, id, outcome) ==
    IF kind = "volumes"
    THEN IF outcome = Ok THEN [name |-> id, success |-> TRUE]
         ELSE [name |-> id, success |-> FALSE, error |-> "Failed to delete"]
    ELSE IF outcome = Ok THEN [id |-> id, success |-> TRUE]
         ELSE [id |-> id, success |-> FALSE, error |-> "Failed to delete"]

\* the entry pushed for id: { id, success: true } after the removal, and
\* { id, success: false, error: error.message } in the inner catch
OutcomeEntry(kind, id, outcome) ==
    IF kind = "volumes"
    THEN IF outcome = Ok THEN [name |-> id, success |-> TRUE]
         ELSE [name |-> id, success |-> FALSE, error |-> outcome]
    ELSE IF outcome = Ok THEN [id |-> id, success |-> TRUE]
         ELSE [id |-> id, success |-> FALSE, error |-> outcome]

EntryId(kind, e) == IF kind = "volumes" THEN e.name ELSE e.id

PushResultOnSuccess(res, kind, id, outcome) ==
    IF outcome = Ok THEN Append(res, OutcomeEntry(kind, id, outcome)) ELSE res

\* results.push(...) of either branch of the inner try
PushResult(res, kind, id, outcome) == Append(res, OutcomeEntry(kind, id, outcome))

AfterRemovalAbort(i, n, outcome) == IF outcome = Ok THEN i + 1 ELSE n + 1

\* the loop goes on to the next identifier whatever the outcome: the inner
\* catch swallows the error
AfterRemoval(i, n, outcome) == i + 1

\* the removal call the handler makes for id: force for all but networks
RemoveCall(kind, id, outcome) ==
    [op |-> "remove", kind |-> kind, id |-> id, force |-> (kind # "networks"),
     outcome |-> outcome, report |-> NoReport]

DeleteResponse(res) == [status |-> 200, body |-> [results |-> res]]

(***************************************************************************)
(* The gateway's steps.                                                    *)
(***************************************************************************)
GatewayInit ==
    /\ envSocketPath \in EnvPaths
    /\ docker = NoHandle
    /\ engine = [k \in Kinds |-> Ids]
    /\ gpc = "idle"
    /\ req = NoRequest
    /\ idx = 0
    /\ results = <<>>
    /\ calls = <<>>
    /\ response = NoResponse
    /\ served = 0
    /\ pending = <<>>

MiddlewareAlwaysCreates(handle, envPath, arrival) ==
    [socketPath |-> IF envPath # "" THEN envPath ELSE DefaultSocketPath,
     createdBy |-> arrival]

\* app.use('*'): the handle is created by the request that finds none
Middleware(handle, envPath, arrival) ==
    IF handle = NoHandle
    THEN [socketPath |-> IF envPath # "" THEN envPath ELSE DefaultSocketPath,
          createdBy |-> arrival]
    ELSE handle

\* a request arrives: the middleware runs, then the handler starts
Receive(method, path, body) ==
    /\ gpc \in {"idle", "responded"}
    /\ pending = <<>>
    /\ served < MaxRequests
    /\ docker' = Middleware(docker, envSocketPath, served + 1)
    /\ req' = [method |-> method, path |-> path, body |-> body]
    /\ gpc' = IF method = "DELETE" THEN "body" ELSE "list"
    /\ idx' = 0
    /\ results' = <<>>
    /\ calls' = <<>>
    /\ response' = NoResponse
    /\ served' = served + 1
    /\ UNCHANGED <<envSocketPath, engine, pending>>
    /\ UNCHANGED cvars

ReceiveGet == \E path \in Paths : Receive("GET", path, NoBody)
ReceiveDelete == \E path \in Kinds, body \in Bodies : Receive("DELETE", path, body)

\* a request arrives while the handler of an earlier one waits for the engine:
\* its middleware runs at once, and its own handler goes on when the earlier
\* one has answered
ReceiveWhileBusy ==
    /\ gpc \in {"list", "body", "loop"}
    /\ served < MaxRequests
    /\ docker' = Middleware(docker, envSocketPath, served + 1)
    /\ \E method \in {"GET", "DELETE"} :
         \E path \in (IF method = "GET" THEN Paths ELSE Kinds) :
           \E body \in (IF method = "GET" THEN {NoBody} ELSE Bodies) :
             pending' = Append(pending, [method |-> method, path |-> path, body |-> body])
    /\ served' = served + 1
    /\ UNCHANGED <<envSocketPath, engine, gpc, req, idx, results, calls, response>>
    /\ UNCHANGED cvars

\* the handler of a request that arrived meanwhile goes on
StartPending ==
    /\ gpc = "responded"
    /\ pending # <<>>
    /\ req' = Head(pending)
    /\ pending' = Tail(pending)
    /\ gpc' = IF Head(pending).method = "DELETE" THEN "body" ELSE "list"
    /\ idx' = 0
    /\ results' = <<>>
    /\ calls' = <<>>
    /\ response' = NoResponse
    /\ UNCHANGED <<envSocketPath, docker, engine, served>>
    /\ UNCHANGED cvars

EngineCall(op, outcome) == [op |-> op, kind |-> "", id |-> <<>>, force |-> FALSE,
                            outcome |-> outcome, report |-> NoReport]
\* docker.df() and the report it returned
DfCall(outcome, df) ==
    [EngineCall("df", outcome) EXCEPT !.report = IF outcome = Ok THEN df ELSE NoReport]
CallOutcomes == {Ok, EngineUnreachable}

\* GET /api/containers, /api/images, /api/networks
HandleList ==
    /\ gpc = "list"
    /\ req.path \in {"containers", "images", "networks"}
    /\ \E outcome \in CallOutcomes :
         /\ calls' = Append(calls, EngineCall("list", outcome))
         /\ response' = ListResponse(req.path, engine, outcome)
    /\ gpc' = "responded"
    /\ UNCHANGED <<envSocketPath, docker, engine, req, idx, results, served, pending>>
    /\ UNCHANGED cvars

\* GET /api/volumes
HandleVolumes ==
    /\ gpc = "list"
    /\ req.path = "volumes"
    /\ \E o1 \in CallOutcomes, o2 \in CallOutcomes, df \in DfReports(engine) :
         /\ calls' = IF o1 = Ok
                     THEN calls \o <<EngineCall("list", o1), DfCall(o2, df)>>
                     ELSE Append(calls, EngineCall("list", o1))
         /\ response' = VolumesResponse(engine, o1, IF o1 = Ok THEN o2 ELSE Ok, df)
    /\ gpc' = "responded"
    /\ UNCHANGED <<envSocketPath, docker, engine, req, idx, results, served, pending>>
    /\ UNCHANGED cvars

\* GET /api/system
HandleSystem ==
    /\ gpc = "list"
    /\ req.path = "system"
    /\ \E outcome \in CallOutcomes, df \in DfReports(engine) :
         /\ calls' = Append(calls, DfCall(outcome, df))
         /\ response' = SystemResponse(outcome, df)
    /\ gpc' = "responded"
    /\ UNCHANGED <<envSocketPath, docker, engine, req, idx, results, served, pending>>
    /\ UNCHANGED cvars

\* const { ids } = await c.req.json(): a body that does not parse, or whose
\* list is missing (for...of then throws), ends in the outer catch
ReadBody ==
    /\ gpc = "body"
    /\ IF ~req.body.json \/ ~req.body.list
       THEN /\ response' = ErrorResponse("DELETE", req.path)
            /\ gpc' = "responded"
            /\ idx' = idx
       ELSE /\ response' = response
            /\ gpc' = "loop"
            /\ idx' = 1
    /\ UNCHANGED <<envSocketPath, docker, engine, req, results, calls, served, pending>>
    /\ UNCHANGED cvars

EngineRestoredOnFailure(held, kind, id, outcome, res) ==
    IF outcome = Ok THEN [held EXCEPT ![kind] = @ \ {id}]
    ELSE [held EXCEPT ![kind] =
            @ \cup {EntryId(kind, res[j]) : j \in {k \in 1..Len(res) : res[k].success}}]

\* what the engine holds after a removal call of the loop: a removal that
\* resolved took the resource away, and the catch of a failed one only
\* records the failure, res being the outcomes recorded before it
EngineAfterRemoval(held, kind, id, outcome, res) ==
    IF outcome = Ok THEN [held EXCEPT ![kind] = @ \ {id}] ELSE held

\* one iteration of the for...of loop
RemoveStep ==
    /\ gpc = "loop"
    /\ idx <= Len(req.body.ids)
    /\ LET id == req.body.ids[idx]
           kind == req.path
       IN \E outcome \in RemoveOutcomes(engine[kind], id) :
            /\ calls' = Append(calls, RemoveCall(kind, id, outcome))
            /\ engine' = EngineAfterRemoval(engine, kind, id, outcome, results)
            /\ results' = PushResult(results, kind, id, outcome)
            /\ idx' = AfterRemoval(idx, Len(req.body.ids), outcome)
    /\ UNCHANGED <<envSocketPath, docker, gpc, req, response, served, pending>>
    /\ UNCHANGED cvars

\* return c.json({ results })
Respond ==
    /\ gpc = "loop"
    /\ idx > Len(req.body.ids)
    /\ response' = DeleteResponse(results)
    /\ gpc' = "responded"
    /\ UNCHANGED <<envSocketPath, docker, engine, req, idx, results, calls, served, pending>>
    /\ UNCHANGED cvars

GatewayNext ==
    \/ ReceiveGet
    \/ ReceiveDelete
    \/ ReceiveWhileBusy
    \/ StartPending
    \/ HandleList
    \/ HandleVolumes
    \/ HandleSystem
    \/ ReadBody
    \/ RemoveStep
    \/ Respond


(***************************************************************************)
(* The Dashboard Client: strings.                                          *)
(***************************************************************************)
Lower(ch) == IF ch = "A" THEN "a" ELSE IF ch = "B" THEN "b" ELSE ch
\* String.prototype.toLowerCase
ToLower(str) == [j \in 1..Len(str) |-> Lower(str[j])]
\* String.prototype.includes
Includes(str, sub) ==
    \E k \in 0..(Len(str) - Len(sub)) : SubSeq(str, k + 1, k + Len(sub)) = sub

\* the collation order of the characters in use
CharOrder == <<"/", "1", "2", "3", "4", "5", "6", "7", "8", "9",
               "a", "b", "l", "p", "r", "u">>
Rank(ch) == CHOOSE k \in 1..Len(CharOrder) : CharOrder[k] = ch

RECURSIVE LocaleCompare(_, _)
\* String.prototype.localeCompare, as a sign
LocaleCompare(a, b) ==
    IF a = <<>> /\ b = <<>> THEN 0
    ELSE IF a = <<>> THEN -1
    ELSE IF b = <<>> THEN 1
    ELSE IF Rank(a[1]) < Rank(b[1]) THEN -1
    ELSE IF Rank(a[1]) > Rank(b[1]) THEN 1
    ELSE LocaleCompare(Tail(a), Tail(b))

\* str.replace('/', ''): the first separator is removed
StripSeparator(str) ==
    IF \E k \in 1..Len(str) : str[k] = "/"
    THEN LET k == CHOOSE k \in 1..Len(str) :
                    str[k] = "/" /\ \A m \in 1..(k - 1) : str[m] # "/"
         IN SubSeq(str, 1, k - 1) \o SubSeq(str, k + 1, Len(str))
    ELSE str

(***************************************************************************)
(* The client's values.                                                    *)
(***************************************************************************)
\* the order of the fetches in Promise.all and of the decoding of the bodies
Endpoints == <<"containers", "images", "volumes", "networks", "system">>

NoError == "null"
FetchFailedMessage == "Failed to fetch data"
DeleteRequestFailedMessage == "Failed to delete items"
\* message of the TypeError of a fetch that gets no answer
NetworkErrorMessage == "Failed to fetch"
\* message of the SyntaxError of a body that is no JSON
DecodeErrorMessage == "Unexpected end of JSON input"
DeleteFailedMessage(k) == "Failed to delete " \o ToString(k) \o " items"

NoSystemInfo == [images |-> [count |-> -1, size |-> -1],
                 containers |-> [count |-> -1, size |-> -1],
                 volumes |-> [count |-> -1, size |-> -1]]
NoSort == [key |-> "", direction |-> "none"]

\* the search texts typed in the model
SearchTerms == {<<>>, <<"A", "b">>, <<"b", "b">>}

\* the keys of the sortable headers of each table
SortKeys(tab) ==
    IF tab = "containers" THEN {"names", "created", "size"}
    ELSE IF tab = "images" THEN {"repoTags", "size"}
    ELSE IF tab = "volumes" THEN {"name", "size"}
    ELSE {"name", "internal"}

(***************************************************************************)
(* What the gateway answers to the five fetches when the engine holds the  *)
(* resources numbered by held, of every kind.                              *)
(***************************************************************************)
Holding(held) == [k \in Kinds |-> held]
FullReport(held) == [containers |-> Section(held), images |-> Section(held),
                     volumes |-> Section(held)]
BodyOf(path, held) ==
    IF path = "system" THEN SystemResponse(Ok, FullReport(held)).body
    ELSE IF path = "volumes"
    THEN VolumesResponse(Holding(held), Ok, Ok, FullReport(held)).body
    ELSE ListResponse(path, Holding(held), Ok).body

(***************************************************************************)
(* Filtering and sorting of the rows.                                      *)
(***************************************************************************)
ItemsOf(tab) ==
    IF tab = "containers" THEN containers
    ELSE IF tab = "images" THEN images
    ELSE IF tab = "volumes" THEN volumes
    ELSE networks

MatchesCaseSensitive(tab, item, searchLower) ==
    IF tab = "containers"
    THEN \/ \E n \in 1..Len(item.names) : Includes(item.names[n], searchLower)
         \/ Includes(item.image, searchLower)
         \/ Includes(item.status, searchLower)
    ELSE IF tab = "images"
    THEN \/ \E n \in 1..Len(item.repoTags) : Includes(item.repoTags[n], searchLower)
         \/ Includes(item.id, searchLower)
    ELSE \/ Includes(item.name, searchLower)
         \/ Includes(item.driver, searchLower)

\* the predicate of items.filter, searchLower being the lowered search text
Matches(tab, item, searchLower) ==
    IF tab = "containers"
    THEN \/ \E n \in 1..Len(item.names) : Includes(ToLower(item.names[n]), searchLower)
         \/ Includes(ToLower(item.image), searchLower)
         \/ Includes(ToLower(item.status), searchLower)
    ELSE IF tab = "images"
    THEN \/ \E n \in 1..Len(item.repoTags) :
              Includes(ToLower(item.repoTags[n]), searchLower)
         \/ Includes(ToLower(item.id), searchLower)
    ELSE \/ Includes(ToLower(item.name), searchLower)
         \/ Includes(ToLower(item.driver), searchLower)

getFilteredItems ==
    IF searchTerm = <<>> THEN ItemsOf(activeTab)
    ELSE SelectSeq(ItemsOf(activeTab),
                   LAMBDA item : Matches(activeTab, item, ToLower(searchTerm)))

\* the values compared, tagged with their typeof
StringValue(str) == [type |-> "string", str |-> str, num |-> 0, bool |-> FALSE]
NumberValue(n) == [type |-> "number", str |-> <<>>, num |-> n, bool |-> FALSE]
BooleanValue(b) == [type |-> "boolean", str |-> <<>>, num |-> 0, bool |-> b]

\* a[sortConfig.key]: a missing field compares as the empty string
FieldValue(tab, item, key) ==
    IF key \notin DOMAIN item THEN StringValue(<<>>)
    ELSE IF key \in {"size", "virtualSize", "containers", "refCount"}
    THEN NumberValue(item[key])
    ELSE IF key = "internal" THEN BooleanValue(item[key])
    ELSE IF key = "created" /\ tab \in {"containers", "images"}
    THEN NumberValue(item[key])
    ELSE StringValue(item[key])

\* aValue of the comparator: the field, or the scalar derived for it
SortValue(tab, item, key) ==
    IF key \in {"name", "names"}
    THEN IF tab = "containers"
         THEN StringValue(IF Len(item.names) > 0
                          THEN StripSeparator(item.names[1]) ELSE <<>>)
         ELSE IF tab \in {"volumes", "networks"} THEN StringValue(item.name)
         ELSE FieldValue(tab, item, key)
    ELSE IF key = "repoTags"
    THEN StringValue(IF Len(item.repoTags) > 0 THEN item.repoTags[1] ELSE <<>>)
    ELSE FieldValue(tab, item, key)

\* String(value)
AsString(v) ==
    IF v.type = "string" THEN v.str
    ELSE IF v.type = "number"
    THEN (IF v.num \in 1..Len(Digits) THEN <<Digits[v.num]>> ELSE <<"0">>)
    ELSE IF v.bool THEN <<"t", "r", "u", "e">> ELSE <<"f", "a", "l", "s", "e">>

\* comparison of the comparator, before the direction is applied
Comparison(a, b) ==
    IF a.type = "string" /\ b.type = "string"
    THEN LocaleCompare(ToLower(a.str), ToLower(b.str))
    ELSE IF a.type = "number" /\ b.type = "number" THEN a.num - b.num
    ELSE IF a.type = "boolean" /\ b.type = "boolean"
    THEN (IF a.bool = b.bool THEN 0 ELSE IF a.bool THEN 1 ELSE -1)
    ELSE LocaleCompare(AsString(a), AsString(b))

Comparator(tab, cfg, a, b) ==
    LET c == Comparison(SortValue(tab, a, cfg.key), SortValue(tab, b, cfg.key))
    IN IF cfg.direction = "asc" THEN c ELSE 0 - c

RECURSIVE InsertStable(_, _, _, _)
\* x goes after every element that does not compare greater than it
InsertStable(tab, cfg, x, sorted) ==
    IF sorted = <<>> THEN <<x>>
    ELSE IF Comparator(tab, cfg, sorted[1], x) <= 0
    THEN <<sorted[1]>> \o InsertStable(tab, cfg, x, Tail(sorted))
    ELSE <<x>> \o sorted

RECURSIVE StableSort(_, _, _)
\* Array.prototype.sort: a stable sort
StableSort(tab, cfg, items) ==
    IF items = <<>> THEN <<>>
    ELSE InsertStable(tab, cfg, items[Len(items)],
                      StableSort(tab, cfg, SubSeq(items, 1, Len(items) - 1)))

sortItemsReversingForDescending(items) ==
    IF sortConfig = NoSort THEN items
    ELSE LET ascending == StableSort(activeTab, [sortConfig EXCEPT !.direction = "asc"],
                                     items)
         IN IF sortConfig.direction = "asc" THEN ascending
            ELSE [j \in 1..Len(ascending) |-> ascending[Len(ascending) + 1 - j]]

sortItems(items) ==
    IF sortConfig = NoSort THEN items
    ELSE StableSort(activeTab, sortConfig, items)

getSortedAndFilteredItems == sortItems(getFilteredItems)

\* activeTab === 'volumes' ? item.name : item.id
ItemId(tab, item) == IF tab = "volumes" THEN item.name ELSE item.id

\* allIds of handleSelectAll
allIds == [j \in 1..Len(getSortedAndFilteredItems) |->
             ItemId(activeTab, getSortedAndFilteredItems[j])]

(***************************************************************************)
(* The client's steps.                                                     *)
(***************************************************************************)
AllGets == {[method |-> "GET", path |-> Endpoints[j], key |-> "", ids |-> {}] :
              j \in 1..Len(Endpoints)}

DeleteRequestByIds(tab, ids) ==
    [method |-> "DELETE", path |-> tab, key |-> "ids", ids |-> ids]

\* the DELETE fetch: endpoint of the active tab, body { names } for volumes
\* and { ids } otherwise
DeleteRequest(tab, ids) ==
    [method |-> "DELETE", path |-> tab,
     key |-> IF tab = "volumes" THEN "names" ELSE "ids", ids |-> ids]

NothingArrived == [outcome |-> [j \in 1..Len(Endpoints) |-> "none"], held |-> {}]
NothingDeleted == [status |-> "none", results |-> {}]

\* the ways the five fetches end: each is answered with a success status
\* ("ok"), with another status ("bad"), or not at all ("neterr"); at most one
\* of them fails
FetchOutcomes ==
    {[j \in 1..Len(Endpoints) |-> "ok"]} \cup
    {[j \in 1..Len(Endpoints) |-> IF j = k THEN how ELSE "ok"] :
        k \in 1..Len(Endpoints), how \in {"bad", "neterr"}}

\* Promise.all rejects when a fetch rejects
Rejected(outcome) == \E j \in 1..Len(outcome) : outcome[j] = "neterr"

AllOkButLast(outcome) == \A j \in 1..(Len(outcome) - 1) : outcome[j] = "ok"

\* containersRes.ok && imagesRes.ok && volumesRes.ok && networksRes.ok && systemRes.ok
AllOk(outcome) == \A j \in 1..Len(outcome) : outcome[j] = "ok"

ClientInit ==
    /\ activeTab = "containers"
    /\ containers = <<>>
    /\ images = <<>>
    /\ volumes = <<>>
    /\ networks = <<>>
    /\ systemInfo = NoSystemInfo
    /\ selectedItems = {}
    /\ loading = FALSE
    /\ error = NoError
    /\ searchTerm = <<>>
    /\ sortConfig = NoSort
    /\ cpc = "init"
    /\ inDelete = FALSE
    /\ failed = 0
    /\ inflight = {}
    /\ arrived = NothingArrived
    /\ deleted = NothingDeleted
    /\ decodeIdx = 0
    /\ ops = 0

data == <<containers, images, volumes, networks, systemInfo>>
uistate == <<activeTab, selectedItems, searchTerm, sortConfig>>

\* the page takes clicks and keystrokes once mounted, except while the
\* confirmation dialog, which is modal, is open
Interactive == cpc \notin {"init", "confirming"}

FetchStartWithoutLoading(calledByDelete) ==
    /\ loading' = loading
    /\ error' = NoError
    /\ inflight' = AllGets
    /\ cpc' = "fetching"
    /\ inDelete' = calledByDelete
    /\ arrived' = NothingArrived
    /\ decodeIdx' = 0

\* fetchData up to its await: setLoading(true), setError(null), five fetches
FetchStart(calledByDelete) ==
    /\ loading' = TRUE
    /\ error' = NoError
    /\ inflight' = AllGets
    /\ cpc' = "fetching"
    /\ inDelete' = calledByDelete
    /\ arrived' = NothingArrived
    /\ decodeIdx' = 0

\* useEffect(() => { fetchData(); }, [])
Mount ==
    /\ cpc = "init"
    /\ FetchStart(FALSE)
    /\ UNCHANGED <<data, uistate, failed, deleted, ops>>
    /\ UNCHANGED gvars

RefreshButtonAlwaysEnabled == TRUE

\* the Refresh button takes clicks: disabled={loading}
RefreshButtonEnabled == ~loading

\* the Refresh button, disabled while loading
Refresh ==
    /\ cpc = "idle"
    /\ RefreshButtonEnabled
    /\ ops < MaxOps
    /\ FetchStart(FALSE)
    /\ ops' = ops + 1
    /\ UNCHANGED <<data, uistate, failed, deleted>>
    /\ UNCHANGED gvars

\* the five fetches settle: Promise.all has its result
FetchArrive ==
    /\ cpc = "fetching"
    /\ \E outcome \in FetchOutcomes, held \in SUBSET Ids :
         arrived' = [outcome |-> outcome,
                     held |-> IF AllOk(outcome) THEN held ELSE {}]
    /\ inflight' = {}
    /\ cpc' = "settled"
    /\ UNCHANGED <<data, uistate, loading, error, inDelete, failed, deleted, decodeIdx, ops>>
    /\ UNCHANGED gvars

FetchDoneStillLoading ==
    /\ loading' = TRUE
    /\ cpc' = "idle"
    /\ inDelete' = FALSE
    /\ failed' = 0
    /\ arrived' = NothingArrived
    /\ decodeIdx' = 0

\* the end of fetchData: its finally, and, when handleDelete awaited it, the
\* finally of handleDelete, which run in turn with no event in between
FetchDone ==
    /\ loading' = FALSE
    /\ cpc' = "idle"
    /\ inDelete' = FALSE
    /\ failed' = 0
    /\ arrived' = NothingArrived
    /\ decodeIdx' = 0

\* message of the error caught by fetchData after Promise.all
FetchErrorMessage(outcome) ==
    IF Rejected(outcome) THEN NetworkErrorMessage ELSE FetchFailedMessage

\* fetchData after Promise.all: the catch, or the status check and then the
\* decoding of the first body
FetchContinue ==
    /\ cpc = "settled"
    /\ IF Rejected(arrived.outcome) \/ ~AllOk(arrived.outcome)
       THEN /\ error' = FetchErrorMessage(arrived.outcome)
            /\ FetchDone
       ELSE /\ cpc' = "decoding"
            /\ decodeIdx' = 1
            /\ UNCHANGED <<error, loading, inDelete, failed, arrived>>
    /\ UNCHANGED <<data, uistate, inflight, deleted, ops>>
    /\ UNCHANGED gvars

\* the slot of path after the body of path was decoded and set
Commit(path, current, slot, held) ==
    IF path = slot THEN BodyOf(path, held) ELSE current

\* setX(await xRes.json()): the body decodes and is set, or json() throws
DecodeStep ==
    /\ cpc = "decoding"
    /\ \E decodes \in BOOLEAN :
         IF decodes
         THEN /\ containers' = Commit(Endpoints[decodeIdx], containers, "containers", arrived.held)
              /\ images' = Commit(Endpoints[decodeIdx], images, "images", arrived.held)
              /\ volumes' = Commit(Endpoints[decodeIdx], volumes, "volumes", arrived.held)
              /\ networks' = Commit(Endpoints[decodeIdx], networks, "networks", arrived.held)
              /\ systemInfo' = Commit(Endpoints[decodeIdx], systemInfo, "system", arrived.held)
              /\ IF decodeIdx = Len(Endpoints)
                 THEN /\ FetchDone
                 ELSE /\ decodeIdx' = decodeIdx + 1
                      /\ UNCHANGED <<loading, cpc, inDelete, failed, arrived>>
              /\ error' = error
         ELSE /\ error' = DecodeErrorMessage
              /\ FetchDone
              /\ UNCHANGED data
    /\ UNCHANGED <<uistate, inflight, deleted, ops>>
    /\ UNCHANGED gvars

TabClickKeepsSort(tab) ==
    /\ Interactive
    /\ activeTab' = tab
    /\ selectedItems' = {}
    /\ searchTerm' = <<>>
    /\ UNCHANGED sortConfig
    /\ UNCHANGED <<data, loading, error, cpc, inDelete, failed, inflight, arrived,
                   deleted, decodeIdx, ops>>
    /\ UNCHANGED gvars

\* onClick of the button of tab: the four setters
TabClick(tab) ==
    /\ Interactive
    /\ activeTab' = tab
    /\ selectedItems' = {}
    /\ searchTerm' = <<>>
    /\ sortConfig' = NoSort
    /\ UNCHANGED <<data, loading, error, cpc, inDelete, failed, inflight, arrived,
                   deleted, decodeIdx, ops>>
    /\ UNCHANGED gvars

\* the tab buttons
setActiveTab == \E tab \in Kinds : TabClick(tab)

setSearchTermDroppingHidden ==
    /\ Interactive
    /\ \E term \in SearchTerms :
         /\ searchTerm' = term
         /\ selectedItems' =
              {id \in selectedItems :
                 \E j \in 1..Len(ItemsOf(activeTab)) :
                    /\ ItemId(activeTab, ItemsOf(activeTab)[j]) = id
                    /\ (term = <<>> \/ Matches(activeTab, ItemsOf(activeTab)[j],
                                                ToLower(term)))}
    /\ UNCHANGED <<data, activeTab, sortConfig, loading, error, cpc,
                   inDelete, failed, inflight, arrived, deleted, decodeIdx, ops>>
    /\ UNCHANGED gvars

\* the search box
setSearchTerm ==
    /\ Interactive
    /\ \E term \in SearchTerms : searchTerm' = term
    /\ UNCHANGED <<data, activeTab, selectedItems, sortConfig, loading, error, cpc,
                   inDelete, failed, inflight, arrived, deleted, decodeIdx, ops>>
    /\ UNCHANGED gvars

\* the table, with its headers and row checkboxes, is rendered when the client
\* is not loading and has rows to show
TableShown == ~loading /\ Len(getSortedAndFilteredItems) > 0

SortDirectionKeptOnOtherKey(cfg, key) ==
    IF cfg # NoSort /\ cfg.key = key /\ cfg.direction = "asc" THEN "desc"
    ELSE IF cfg # NoSort /\ cfg.key # key THEN cfg.direction
    ELSE "asc"

\* direction of handleSort
SortDirection(cfg, key) ==
    IF cfg # NoSort /\ cfg.key = key /\ cfg.direction = "asc" THEN "desc" ELSE "asc"

handleSort ==
    /\ Interactive
    /\ TableShown
    /\ \E key \in SortKeys(activeTab) :
         sortConfig' = [key |-> key, direction |-> SortDirection(sortConfig, key)]
    /\ UNCHANGED <<data, activeTab, selectedItems, searchTerm, loading, error, cpc,
                   inDelete, failed, inflight, arrived, deleted, decodeIdx, ops>>
    /\ UNCHANGED gvars

Range(seq) == {seq[j] : j \in 1..Len(seq)}

SelectAllByMembership(selected, ids) ==
    IF Range(ids) # {} /\ Range(ids) \subseteq selected
    THEN selected \ Range(ids) ELSE selected \cup Range(ids)

\* the selection after handleSelectAll, ids being allIds
SelectAll(selected, ids) ==
    IF Cardinality(selected) = Len(ids) THEN {} ELSE Range(ids)

\* the Select All button, and the checkbox of the table's header
handleSelectAll ==
    /\ Interactive
    /\ selectedItems' = SelectAll(selectedItems, allIds)
    /\ UNCHANGED <<data, activeTab, searchTerm, sortConfig, loading, error, cpc,
                   inDelete, failed, inflight, arrived, deleted, decodeIdx, ops>>
    /\ UNCHANGED gvars

Toggle(selected, id) ==
    IF id \in selected THEN selected \ {id} ELSE selected \cup {id}

\* the checkbox of a row
handleSelectItem ==
    /\ Interactive
    /\ TableShown
    /\ \E id \in Range(allIds) : selectedItems' = Toggle(selectedItems, id)
    /\ UNCHANGED <<data, activeTab, searchTerm, sortConfig, loading, error, cpc,
                   inDelete, failed, inflight, arrived, deleted, decodeIdx, ops>>
    /\ UNCHANGED gvars

\* the Delete Selected button, disabled while loading or with nothing
\* selected: handleDelete up to its confirm(), which opens the dialog
\* (limit bounds the refreshes started before it)
DeleteClick(limit) ==
    /\ cpc = "idle"
    /\ ~loading
    /\ selectedItems # {}
    /\ ops < limit
    /\ cpc' = "confirming"
    /\ UNCHANGED <<data, uistate, loading, error, inflight, deleted, ops,
                   inDelete, failed, arrived, decodeIdx>>
    /\ UNCHANGED gvars

\* a delete as the one operation of the user
handleDelete == DeleteClick(MaxOps)

\* a delete after the refreshes of the user
handleDeleteAfterRefresh == DeleteClick(MaxOps + 1)

ConfirmAnswerIgnored(confirmed) ==
    /\ cpc = "confirming"
    /\ ops' = MaxOps + 1
    /\ loading' = TRUE
    /\ error' = NoError
    /\ inflight' = {DeleteRequest(activeTab, selectedItems)}
    /\ cpc' = "deleting"
    /\ deleted' = NothingDeleted
    /\ UNCHANGED <<data, uistate, inDelete, failed, arrived, decodeIdx>>
    /\ UNCHANGED gvars

\* handleDelete from the answer of confirm() to its await: a declined dialog
\* returns, a confirmed one sets loading, clears the error and sends the request
ConfirmAnswer(confirmed) ==
    /\ cpc = "confirming"
    /\ IF confirmed
       THEN /\ ops' = MaxOps + 1
            /\ loading' = TRUE
            /\ error' = NoError
            /\ inflight' = {DeleteRequest(activeTab, selectedItems)}
            /\ cpc' = "deleting"
            /\ deleted' = NothingDeleted
       ELSE /\ cpc' = "idle"
            /\ UNCHANGED <<loading, error, inflight, deleted, ops>>
    /\ UNCHANGED <<data, uistate, inDelete, failed, arrived, decodeIdx>>
    /\ UNCHANGED gvars

\* the user answers the dialog
confirm == \E confirmed \in BOOLEAN : ConfirmAnswer(confirmed)

\* the answers a delete request can get: none, a failure status, a body that
\* does not decode, or the outcome entries of the identifiers sent
DeleteAnswers(ids) ==
    {[status |-> st, results |-> {}] : st \in {"neterr", "bad", "undecodable"}} \cup
    {[status |-> "ok",
      results |-> {[id |-> id, success |-> (id \notin F)] : id \in ids}] :
        F \in SUBSET ids}

DeleteArrive ==
    /\ cpc = "deleting"
    /\ \E request \in inflight : \E answer \in DeleteAnswers(request.ids) :
         deleted' = answer
    /\ inflight' = {}
    /\ cpc' = "answered"
    /\ UNCHANGED <<data, uistate, loading, error, inDelete, failed, arrived, decodeIdx, ops>>
    /\ UNCHANGED gvars

\* result.results.filter((r) => !r.success)
FailedOutcomes(rs) == {r \in rs : ~r.success}

\* if (failed.length > 0) setError(...)
ErrorAfterDelete(err, k) == IF k > 0 THEN DeleteFailedMessage(k) ELSE err

\* setError(null) of the fetchData that handleDelete calls next
ErrorAtFetchStart(err) == NoError

SelectionKeptOnFailure(selected, k) == IF k > 0 THEN selected ELSE {}

\* setSelectedItems(new Set())
SelectionAfterDelete(selected, k) == {}

DeleteErrorSilent(status) == NoError

\* err.message in the catch of handleDelete
DeleteErrorMessage(status) ==
    IF status = "neterr" THEN NetworkErrorMessage
    ELSE IF status = "bad" THEN DeleteRequestFailedMessage
    ELSE DecodeErrorMessage

\* handleDelete after its awaits: the catch and the finally, or the outcome
\* count, the cleared selection and fetchData up to its await
DeleteContinue ==
    /\ cpc = "answered"
    /\ IF deleted.status # "ok"
       THEN /\ error' = DeleteErrorMessage(deleted.status)
            /\ loading' = FALSE
            /\ cpc' = "idle"
            /\ UNCHANGED <<selectedItems, inflight, inDelete, failed, arrived, decodeIdx>>
       ELSE LET k == Cardinality(FailedOutcomes(deleted.results))
            IN /\ failed' = k
               /\ selectedItems' = SelectionAfterDelete(selectedItems, k)
               /\ FetchStart(TRUE)
               /\ error' = ErrorAtFetchStart(ErrorAfterDelete(error, k))
    /\ deleted' = NothingDeleted
    /\ UNCHANGED <<data, activeTab, searchTerm, sortConfig, ops>>
    /\ UNCHANGED gvars

ClientNext ==
    \/ Mount
    \/ Refresh
    \/ FetchArrive
    \/ FetchContinue
    \/ DecodeStep
    \/ setActiveTab
    \/ setSearchTerm
    \/ handleSort
    \/ handleSelectAll
    \/ handleSelectItem
    \/ handleDelete
    \/ confirm
    \/ DeleteArrive
    \/ DeleteContinue

\* the gateway alone, serving requests one after the other
Init == GatewayInit /\ ClientInit
SpecGateway == Init /\ [][GatewayNext]_vars

\* the client alone, the gateway's answers being any the gateway can give
InitClient == GatewayInit /\ envSocketPath = "" /\ ClientInit
SpecClient == InitClient /\ [][ClientNext]_vars

\* the client in sessions where a delete follows the refreshes
SessionNext ==
    \/ Mount
    \/ Refresh
    \/ FetchArrive
    \/ FetchContinue
    \/ DecodeStep
    \/ setActiveTab
    \/ setSearchTerm
    \/ handleSort
    \/ handleSelectAll
    \/ handleSelectItem
    \/ handleDeleteAfterRefresh
    \/ confirm
    \/ DeleteArrive
    \/ DeleteContinue

SpecClientSession == InitClient /\ [][SessionNext]_vars

\* the client when every request issued gets its response or its error, and
\* every continuation of an await runs
SpecClientFair ==
    /\ InitClient
    /\ [][ClientNext]_vars
    /\ WF_vars(Mount)
    /\ WF_vars(FetchArrive)
    /\ WF_vars(FetchContinue)
    /\ WF_vars(DecodeStep)
    /\ WF_vars(DeleteArrive)
    /\ WF_vars(DeleteContinue)

(***************************************************************************)
(* Properties of the gateway.                                              *)
(***************************************************************************)
DeleteAnswered ==
    gpc = "responded" /\ req.method = "DELETE" /\ req.body.json /\ req.body.list

EngineFailed(log) == \E j \in 1..Len(log) : log[j].outcome = EngineUnreachable

\* C1: a delete of N identifiers is answered with exactly N outcome entries,
\* the i-th entry carrying the i-th identifier of the request, whatever the
\* outcomes of the removals
DeleteResultsMatchInput ==
    DeleteAnswered =>
        /\ response.status = 200
        /\ Len(response.body.results) = Len(req.body.ids)
        /\ \A j \in 1..Len(req.body.ids) :
             EntryId(req.path, response.body.results[j]) = req.body.ids[j]

\* a delete of two identifiers answered after one removal succeeded and the
\* other failed
MixedDeleteAnswered ==
    /\ DeleteAnswered
    /\ Len(req.body.ids) = 2
    /\ \E j, k \in 1..2 : calls[j].outcome = Ok /\ calls[k].outcome # Ok

\* C2: the handler attempts the removal of every identifier of the list exactly
\* once and in order, whatever the outcomes before it, and answers with the
\* full outcome set even when every removal failed
EveryIdentifierAttemptedOnce ==
    /\ (gpc = "loop" /\ idx <= Len(req.body.ids)) => Len(calls) = idx - 1
    /\ DeleteAnswered =>
        /\ Len(calls) = Len(req.body.ids)
        /\ \A j \in 1..Len(calls) :
             /\ calls[j].op = "remove"
             /\ calls[j].kind = req.path
             /\ calls[j].id = req.body.ids[j]
        /\ response.status = 200
        /\ Len(response.body.results) = Len(req.body.ids)

\* a delete of two identifiers answered after both removals failed
AllFailedDeleteAnswered ==
    /\ DeleteAnswered
    /\ Len(req.body.ids) = 2
    /\ Len(calls) = 2
    /\ \A j \in 1..2 : calls[j].outcome # Ok
    /\ response.status = 200

\* C3: every outcome entry has success = TRUE exactly when the engine removed
\* that identifier, and a failed entry carries the engine's error message for
\* that same identifier
OutcomeReflectsEngine ==
    (req.method = "DELETE" /\ gpc \in {"loop", "responded"}) =>
        /\ Len(results) <= Len(calls)
        /\ \A j \in 1..Len(results) :
             /\ EntryId(req.path, results[j]) = calls[j].id
             /\ results[j].success = (calls[j].outcome = Ok)
             /\ ~results[j].success => results[j].error = calls[j].outcome
        /\ (DeleteAnswered /\ response.status = 200) =>
             response.body.results = results

\* the scenario of the specification: the first removal succeeds, the second
\* one fails because the resource is in use
SecondRemovalFailed ==
    /\ DeleteAnswered
    /\ req.path = "containers"
    /\ Len(results) = 2
    /\ results[1].success
    /\ ~results[2].success /\ results[2].error = ResourceInUse

\* C4 as stated: every endpoint answers 500 with an error body whenever the
\* engine could not be reached during the request
EveryEndpointFailsWith500 ==
    (gpc = "responded" /\ EngineFailed(calls)) =>
        /\ response.status = 500
        /\ response.body = [error |-> FailureMessage(req.method, req.path)]

\* C4 amended: a list or usage endpoint answers 500 with its error message
\* whenever an engine call of the request failed; a delete endpoint answers
\* 500 only when its body cannot be read, and reports a removal that could
\* not reach the engine as the failed outcome of that identifier, in a 200
ReadEndpointsFailWith500 ==
    /\ (gpc = "responded" /\ req.method = "GET") =>
         IF \E j \in 1..Len(calls) : calls[j].outcome # Ok
         THEN /\ response.status = 500
              /\ response.body = [error |-> FailureMessage("GET", req.path)]
         ELSE response.status = 200
    /\ (gpc = "responded" /\ req.method = "DELETE") =>
         IF req.body.json /\ req.body.list
         THEN /\ response.status = 200
              /\ \A j \in 1..Len(calls) :
                   calls[j].outcome = EngineUnreachable =>
                     /\ ~response.body.results[j].success
                     /\ response.body.results[j].error = EngineUnreachable
         ELSE /\ response.status = 500
              /\ response.body = [error |-> FailureMessage("DELETE", req.path)]

\* the volume list answered 500 after the listing succeeded and the disk-usage
\* query could not reach the engine
VolumesUsageQueryFailed ==
    /\ gpc = "responded"
    /\ req.method = "GET" /\ req.path = "volumes"
    /\ Len(calls) = 2
    /\ calls[1].outcome = Ok /\ calls[2].outcome = EngineUnreachable
    /\ response.status = 500

(***************************************************************************)
(* Properties of the client.                                               *)
(***************************************************************************)
\* what the five slots hold after a refresh answered from held
LoadedFrom(held) ==
    <<BodyOf("containers", held), BodyOf("images", held), BodyOf("volumes", held),
      BodyOf("networks", held), BodyOf("system", held)>>
NothingLoaded == <<<<>>, <<>>, <<>>, <<>>, NoSystemInfo>>

\* the identifiers of the rows the search text leaves visible
VisibleIds ==
    {ItemId(activeTab, ItemsOf(activeTab)[j]) :
        j \in {k \in 1..Len(ItemsOf(activeTab)) :
                 \/ searchTerm = <<>>
                 \/ Matches(activeTab, ItemsOf(activeTab)[k], ToLower(searchTerm))}}
AllIds == {ItemId(activeTab, ItemsOf(activeTab)[j]) : j \in 1..Len(ItemsOf(activeTab))}

\* C5 as stated: when a delete answered with k >= 1 failed outcomes has
\* finished, its follow-up refresh having loaded the data, the error reads
\* "Failed to delete k items" and the selection is empty
DeleteFailuresStayReported ==
    [][(/\ inDelete /\ failed >= 1
        /\ cpc = "decoding" /\ cpc' = "idle"
        /\ data' = LoadedFrom(arrived.held)) =>
         /\ error' = DeleteFailedMessage(failed)
         /\ selectedItems' = {}]_vars

\* C6: the continuation of a delete that was answered with outcome entries
\* clears the selection and starts all five fetches, whatever the number of
\* failed outcomes
AnsweredDeleteClearsAndRefreshes ==
    [][(cpc = "answered" /\ deleted.status = "ok" /\ cpc' # "answered") =>
         /\ selectedItems' = {}
         /\ inflight' = AllGets
         /\ cpc' = "fetching"]_vars

\* the refresh of a delete whose every outcome failed is in flight, the
\* selection cleared
RefreshAfterFailedDelete ==
    /\ cpc = "fetching"
    /\ inDelete
    /\ failed = 2
    /\ selectedItems = {}
    /\ inflight = AllGets

\* C7 as stated: when the search text narrows the rows to a subset that is
\* wholly selected, select-all removes that subset from the selection and
\* keeps every other selected identifier
SelectAllDeselectsVisibleOnly ==
    [][(/\ handleSelectAll
        /\ searchTerm # <<>>
        /\ VisibleIds # AllIds
        /\ VisibleIds # {}
        /\ VisibleIds \subseteq selectedItems) =>
         selectedItems' = selectedItems \ VisibleIds]_vars

\* C8: select-all empties the selection when its size is the number of
\* visible rows, and otherwise makes it the identifiers of the visible rows
SelectAllTogglesOnSize ==
    [][handleSelectAll =>
         IF Cardinality(selectedItems) = Cardinality(VisibleIds)
         THEN selectedItems' = {}
         ELSE selectedItems' = VisibleIds]_vars

\* under a search text that hides a row, exactly the visible rows are selected
VisibleRowsSelected ==
    /\ searchTerm # <<>>
    /\ VisibleIds # {}
    /\ VisibleIds # AllIds
    /\ selectedItems = VisibleIds

SomeFetchFailed(outcome) == \E j \in 1..Len(outcome) : outcome[j] # "ok"

\* C9: when one of the five fetches of a refresh failed, the continuation of
\* the refresh leaves the five slots as they were, shows an error and ends
\* the refresh with loading false
FailedRefreshKeepsData ==
    [][(cpc = "settled" /\ SomeFetchFailed(arrived.outcome) /\ cpc' # "settled") =>
         /\ data' = data
         /\ error' # NoError
         /\ loading' = FALSE
         /\ cpc' = "idle"]_vars

\* a refresh failed on a status after an earlier refresh had loaded rows
FailedRefreshOverLoadedData ==
    /\ cpc = "idle"
    /\ ops = 1
    /\ error = FetchFailedMessage
    /\ ~loading
    /\ containers # <<>>
    /\ data = LoadedFrom(Ids)

\* C10 as stated: a refresh replaces all five slots or none, so that between
\* operations the slots always hold the answers of one refresh
RefreshIsAllOrNothing ==
    cpc = "idle" =>
        \/ data = NothingLoaded
        \/ \E held \in SUBSET Ids : data = LoadedFrom(held)


\* C11: a click on a tab button, in any state of the client, makes that tab
\* the active kind and leaves the selection empty, the search text empty and
\* the sort unset
TabSwitchResetsView ==
    [][\A tab \in Kinds :
         TabClick(tab) =>
           /\ activeTab' = tab
           /\ selectedItems' = {}
           /\ searchTerm' = <<>>
           /\ sortConfig' = NoSort]_vars

\* a delete of containers is in flight and the user has switched to another
\* tab, whose view is reset
TabSwitchedDuringDelete ==
    /\ cpc = "deleting"
    /\ \E request \in inflight : request.path = "containers"
    /\ activeTab = "volumes"
    /\ selectedItems = {}
    /\ searchTerm = <<>>
    /\ sortConfig = NoSort

\* C12: a click on a header makes its key the sort key; the direction becomes
\* descending exactly when the sort key was already that key, ascending, and
\* ascending from every other state: no sort, another key, the key descending
SortToggleDirection ==
    [][handleSort =>
         /\ sortConfig'.key \in SortKeys(activeTab)
         /\ sortConfig'.direction =
              IF sortConfig.key = sortConfig'.key /\ sortConfig.direction = "asc"
              THEN "desc" ELSE "asc"
         /\ (sortConfig = NoSort => sortConfig'.direction = "asc")
         /\ (sortConfig.key # sortConfig'.key => sortConfig'.direction = "asc")]_vars

\* the same header was clicked twice from the unsorted table
SortedDescending ==
    /\ sortConfig.key = "created"
    /\ sortConfig.direction = "desc"
    /\ activeTab = "containers"

\* a delete request is in flight
DeleteInFlight == \E request \in inflight : request.method = "DELETE"

\* C13: a declined confirmation sends no request and changes neither the
\* selection, loading, the error nor the fetched data; nothing sends a
\* delete request while the selection is empty; a delete request is sent
\* only by a confirmation given for a non-empty selection, for that selection
DeleteNeedsConfirmedSelection ==
    [][/\ (ConfirmAnswer(FALSE) =>
             /\ UNCHANGED <<selectedItems, loading, error, data, inflight>>
             /\ ~DeleteInFlight')
       /\ (selectedItems = {} /\ ~DeleteInFlight => ~DeleteInFlight')
       /\ (~DeleteInFlight /\ DeleteInFlight' =>
             /\ ConfirmAnswer(TRUE)
             /\ selectedItems # {}
             /\ inflight' = {DeleteRequest(activeTab, selectedItems)})]_vars

\* the user confirmed the dialog with both volumes selected: the request for
\* that selection is in flight
ConfirmedDeleteSent ==
    /\ cpc = "deleting"
    /\ activeTab = "volumes"
    /\ selectedItems = Ids
    /\ inflight = {DeleteRequest("volumes", Ids)}
    /\ loading

\* the client waits for a response or has one it has not finished handling
RoundTripOpen == cpc \in {"fetching", "settled", "decoding", "deleting", "answered"}

StartedOperationFinishes ==
    (loading \/ RoundTripOpen) ~> (cpc = "idle" /\ ~loading /\ inflight = {})

\* a delete whose request was answered with a failure status has finished
FailedDeleteFinished ==
    /\ cpc = "idle"
    /\ ops = MaxOps + 1
    /\ error = DeleteRequestFailedMessage
    /\ ~loading
    /\ inflight = {}

(***************************************************************************)
(* Properties of the list and usage handlers.                              *)
(***************************************************************************)
\* the request at path was answered 200
Listed(path) ==
    /\ gpc = "responded"
    /\ req.method = "GET"
    /\ req.path = path
    /\ response.status = 200

\* the disk-usage report the handler got
ReportGot == calls[Len(calls)].report

\* C16: every volume of the volume list has the usage size of the entry of
\* the disk-usage report that has its name, and size 0 when the report has
\* no such entry or no volume section
VolumeSizeFromReport ==
    Listed("volumes") =>
        \A j \in 1..Len(response.body) :
            response.body[j].size =
                IF /\ ReportGot.volumes.present
                   /\ response.body[j].name \in ReportGot.volumes.items
                THEN UsageSize(response.body[j].name)
                ELSE 0

\* two volumes were listed, the report having an entry for the first only,
\* while the second is the one with a usage size above zero
SecondVolumeMissingInReport ==
    /\ Listed("volumes")
    /\ Len(response.body) = 2
    /\ ReportGot.volumes.present
    /\ ReportGot.volumes.items = {Ident(1)}
    /\ UsageSize(Ident(2)) > 0
    /\ response.body[2].size = 0

\* C17: for containers, images and volumes the usage endpoint answers the
\* number of entries of that kind in the one disk-usage report it asked for
\* and the sum of their sizes, and 0 for both when the report lacks the kind
UsageCountsAndSums ==
    Listed("system") =>
        /\ Len(calls) = 1
        /\ calls[1].op = "df"
        /\ \A kind \in {"containers", "images", "volumes"} :
             IF ReportGot[kind].present
             THEN /\ response.body[kind].count = Cardinality(ReportGot[kind].items)
                  /\ response.body[kind].size = SumSizes(ReportGot[kind].items)
             ELSE /\ response.body[kind].count = 0
                  /\ response.body[kind].size = 0

\* the usage endpoint answered from a report with two volumes and no image
\* section
UsageWithAbsentImages ==
    /\ Listed("system")
    /\ ~ReportGot.images.present
    /\ ReportGot.volumes.present
    /\ Cardinality(ReportGot.volumes.items) = 2
    /\ response.body.volumes = [count |-> 2, size |-> 1]
    /\ response.body.images = [count |-> 0, size |-> 0]

\* C18: a list answered 200 has one record for each instance the engine
\* holds of that kind, in the engine's order, none left out or repeated,
\* each with the engine's identifier of its instance
ListMatchesEngine ==
    \A path \in Kinds :
        Listed(path) =>
            /\ Len(response.body) = Cardinality(engine[path])
            /\ \A j \in 1..Len(response.body) :
                 (IF path = "volumes" THEN response.body[j].name
                  ELSE response.body[j].id) = SortedSeq(engine[path])[j]

\* the networks were listed after the first of them had been removed
NetworksListedAfterRemoval ==
    /\ Listed("networks")
    /\ engine["networks"] = {Ident(2)}
    /\ Len(response.body) = 1
    /\ response.body[1].id = Ident(2)

(***************************************************************************)
(* Properties of the rows of the table.                                    *)
(***************************************************************************)
\* term occurs in field, the case of the letters set aside
ContainsIgnoringCase(field, term) ==
    \E k \in 0..(Len(field) - Len(term)) :
        \A i \in 1..Len(term) : Lower(field[k + i]) = Lower(term[i])

\* term occurs in one of the fields searched for the kind of tab
SearchHit(tab, item, term) ==
    IF tab = "containers"
    THEN \/ \E n \in 1..Len(item.names) : ContainsIgnoringCase(item.names[n], term)
         \/ ContainsIgnoringCase(item.image, term)
         \/ ContainsIgnoringCase(item.status, term)
    ELSE IF tab = "images"
    THEN \/ \E n \in 1..Len(item.repoTags) : ContainsIgnoringCase(item.repoTags[n], term)
         \/ ContainsIgnoringCase(item.id, term)
    ELSE \/ ContainsIgnoringCase(item.name, term)
         \/ ContainsIgnoringCase(item.driver, term)

\* the positions of the fetched items of the active kind that the search
\* text keeps
HitPositions ==
    {j \in 1..Len(ItemsOf(activeTab)) :
        searchTerm = <<>> \/ SearchHit(activeTab, ItemsOf(activeTab)[j], searchTerm)}

\* C19: for every search text and sort state the rows of the table are the
\* items of the active kind that contain the search text in their searched
\* fields, case set aside, each once: sorting adds and drops no row
RowsAreTheFilteredItems ==
    /\ Len(getSortedAndFilteredItems) = Cardinality(HitPositions)
    /\ Range(getSortedAndFilteredItems) =
         {ItemsOf(activeTab)[j] : j \in HitPositions}
    /\ \A i, j \in 1..Len(getSortedAndFilteredItems) :
         i # j => getSortedAndFilteredItems[i] # getSortedAndFilteredItems[j]

\* two volumes are loaded, the search text in capitals keeps one of them, and
\* a descending sort is set
SortedSearchKeepsOneVolume ==
    /\ activeTab = "volumes"
    /\ Len(volumes) = 2
    /\ searchTerm = <<"A", "b">>
    /\ sortConfig = [key |-> "name", direction |-> "desc"]
    /\ Len(getSortedAndFilteredItems) = 1

\* the order of two sort keys: numbers by their difference, booleans with
\* false before true, anything else as strings, case set aside
KeyOrder(a, b) ==
    IF a.type = "number" /\ b.type = "number" THEN a.num - b.num
    ELSE IF a.type = "boolean" /\ b.type = "boolean"
    THEN (IF a.bool = b.bool THEN 0 ELSE IF b.bool THEN -1 ELSE 1)
    ELSE LocaleCompare(ToLower(AsString(a)), ToLower(AsString(b)))

\* the position of an item in the fetched list of the active kind
FetchedPosition(item) ==
    CHOOSE j \in 1..Len(ItemsOf(activeTab)) : ItemsOf(activeTab)[j] = item

\* C20: with a sort key set the rows are in the order of their keys, not
\* decreasing when ascending and not increasing when descending, rows with
\* equal keys staying in their fetched order in both directions; with no
\* sort key the rows are in their fetched order
RowsAreInSortOrder ==
    \A i, j \in 1..Len(getSortedAndFilteredItems) :
        i < j =>
            LET a == getSortedAndFilteredItems[i]
                b == getSortedAndFilteredItems[j]
            IN IF sortConfig = NoSort
               THEN FetchedPosition(a) < FetchedPosition(b)
               ELSE LET c == KeyOrder(SortValue(activeTab, a, sortConfig.key),
                                      SortValue(activeTab, b, sortConfig.key))
                    IN /\ (sortConfig.direction = "asc" => c <= 0)
                       /\ (sortConfig.direction = "desc" => c >= 0)
                       /\ (c = 0 => FetchedPosition(a) < FetchedPosition(b))

\* two containers of the same size are sorted by size, descending, and stay
\* in their fetched order
EqualSizesSortedDescending ==
    /\ activeTab = "containers"
    /\ Len(containers) = 2
    /\ containers[1].size = containers[2].size
    /\ searchTerm = <<>>
    /\ sortConfig = [key |-> "size", direction |-> "desc"]
    /\ getSortedAndFilteredItems = containers

(***************************************************************************)
(* Further properties of the delete handlers and of the handle.            *)
(***************************************************************************)
\* C21: during and after a delete request the engine holds no identifier
\* whose outcome was recorded as a success, whatever happened to the
\* identifiers after it: a failed removal undoes nothing
SucceededRemovalsStay ==
    (req.method = "DELETE" /\ gpc \in {"loop", "responded"}) =>
        /\ \A j \in 1..Len(results) :
              results[j].success => EntryId(req.path, results[j]) \notin engine[req.path]
        /\ (DeleteAnswered =>
              \A j \in 1..Len(response.body.results) :
                 response.body.results[j].success =>
                    EntryId(req.path, response.body.results[j]) \notin engine[req.path])

\* a delete of two images was answered: the first was removed, the removal of
\* the second failed, and the engine holds the second only
FirstRemovedSecondFailed ==
    /\ DeleteAnswered
    /\ req.path = "images"
    /\ req.body.ids = <<Ident(1), Ident(2)>>
    /\ calls[1].outcome = Ok
    /\ calls[2].outcome = ResourceInUse
    /\ response.body.results[1].success
    /\ ~response.body.results[2].success
    /\ engine["images"] = {Ident(2)}

FailedDeleteRequestKeepsState ==
    [][(/\ cpc = "answered"
        /\ deleted.status \in {"neterr", "bad"}
        /\ cpc' # "answered") =>
         /\ error' # NoError
         /\ error' = (IF deleted.status = "bad" THEN DeleteRequestFailedMessage
                      ELSE NetworkErrorMessage)
         /\ UNCHANGED data
         /\ UNCHANGED selectedItems
         /\ inflight' = {}
         /\ cpc' = "idle"
         /\ ~loading']_vars

\* a delete of both containers was answered with a failure status: both are
\* still listed and selected, the error is shown and nothing is loading
RejectedDeleteKeptSelection ==
    /\ cpc = "idle"
    /\ ops = MaxOps + 1
    /\ activeTab = "containers"
    /\ Len(containers) = 2
    /\ selectedItems = Ids
    /\ error = DeleteRequestFailedMessage
    /\ inflight = {}
    /\ ~loading

\* the socket path the process is configured with
ConfiguredSocketPath ==
    IF envSocketPath # "" THEN envSocketPath ELSE DefaultSocketPath

\* C24: no handle exists before the first request; from the first request on
\* the handle is the one that request created from the configured socket
\* path, whatever requests arrive later, also while the first is being handled
HandleCreatedOnce ==
    /\ (served = 0 => docker = NoHandle)
    /\ (served > 0 =>
          docker = [socketPath |-> ConfiguredSocketPath, createdBy |-> 1])

\* a second request arrived while the handler of the first was waiting for
\* the engine, the socket path being configured
SecondArrivedDuringFirst ==
    /\ served = 2
    /\ gpc \in {"list", "body", "loop"}
    /\ Len(pending) = 1
    /\ envSocketPath = "/custom/docker.sock"
    /\ docker.socketPath = "/custom/docker.sock"
    /\ docker.createdBy = 1

\* C25: the delete request sent at the confirmation goes to the endpoint of
\* the tab active then, with the selection held then, as names for volumes
\* and as ids otherwise, and stays that request while it is in flight,
\* whatever the user does with the tabs and the selection meanwhile
DeleteRequestFixedAtConfirmation ==
    [][/\ (~DeleteInFlight /\ DeleteInFlight' =>
             inflight' = {[method |-> "DELETE",
                           path |-> activeTab,
                           key |-> IF activeTab = "volumes" THEN "names" ELSE "ids",
                           ids |-> selectedItems]})
       /\ (DeleteInFlight /\ DeleteInFlight' => inflight' = inflight)
       /\ (DeleteInFlight /\ ~DeleteInFlight' =>
             \E request \in inflight :
                 deleted'.status = "ok" =>
                     {r.id : r \in deleted'.results} = request.ids)]_vars

\* the delete of one volume is in flight; the user has gone to the networks
\* tab and selected every network
SelectionChangedDuringDelete ==
    /\ cpc = "deleting"
    /\ inflight = {[method |-> "DELETE", path |-> "volumes", key |-> "names",
                    ids |-> {Ident(1)}]}
    /\ activeTab = "networks"
    /\ selectedItems = Ids

\* C26: a change of the search text, a click on a header and every step of a
\* refresh that is not the follow-up of a delete leave the selection as it
\* is, and the delete request sent next carries the whole selection, with
\* the identifiers the filter hides and those the refresh no longer lists
SelectionSurvivesViewAndRefresh ==
    [][/\ (setSearchTerm \/ handleSort => UNCHANGED selectedItems)
       /\ (Refresh => UNCHANGED selectedItems)
       /\ (~inDelete /\ (FetchArrive \/ FetchContinue \/ DecodeStep) =>
             UNCHANGED selectedItems)
       /\ (~DeleteInFlight /\ DeleteInFlight' =>
             \E request \in inflight' : request.ids = selectedItems)]_vars

\* both containers were selected, a refresh then listed one container only,
\* the search text hides it, and the delete request in flight names both
StaleAndHiddenSelectionSent ==
    /\ cpc = "deleting"
    /\ activeTab = "containers"
    /\ Len(containers) = 1
    /\ searchTerm # <<>>
    /\ Len(getSortedAndFilteredItems) = 0
    /\ selectedItems = Ids
    /\ inflight = {DeleteRequest("containers", Ids)}

====
